---- MODULE Spec2Model ----
(***************************************************************************)
(* Model of CVTailor's Gemini service (src/utils/gemini_service.py): the    *)
(* quota map quota_exceeded_models, is_quota_error, is_model_available,     *)
(* get_available_models, the rotation loop of modify_cv_with_gemini and     *)
(* test_gemini_connection; and of the web operations process() and          *)
(* download() of src/app.py.                                                *)
(*                                                                         *)
(* Text is modelled as a sequence of tokens (a token is an atomic piece of  *)
(* a Python string); a backend name is the sequence of its pieces, so that  *)
(* 'models/gemini-2.5-flash' is <<"models/", "gemini-2.5-flash">>.          *)
(***************************************************************************)
EXTENDS Integers, Sequences, FiniteSets, TLC

VARIABLES
    quota_exceeded_models,  \* the module-level dict: name -> time of quota hit
    now,                    \* the wall clock read by time.time()
    ticks,                  \* how often the clock has advanced (bounded)
    started,                \* invocations started so far (bounded)
    pc,                     \* per invocation: position in modify_cv_with_gemini
    ima,                    \* per invocation: position in is_model_available
    fi,                     \* index into the fixed list (line 96)
    model_names_to_try,     \* the local candidate list
    disc,                   \* what genai.list_models() returned
    di,                     \* index into disc (line 58)
    available,              \* the local list of get_available_models
    models_tried,           \* the loop counter of line 165
    last_error,             \* line 164 / 244
    outcome,                \* how the invocation ended
    result,                 \* the returned dict or the raised error
    attempts,               \* history: generation calls of this invocation
    listFailed,             \* history: discovery failed in this invocation
    filtered,               \* history: the list as line 96 left it
    skipped,                \* history: line 107 found an API model in the list
    lastFail,               \* history: name -> time its last quota failure was recorded
    web                     \* the state of src/app.py, a record of
                            \*   sessions_data: the module-level dict session id -> entry
                            \*   request: per thread, the session id process() works on, 0 when none
                            \*   requests: process() calls so far (bounded); the source of ids
                            \*   http: per thread, the last response process() sent
                            \*   served: history, how the call behind that response ended

vars == <<quota_exceeded_models, now, ticks, started, pc, ima, fi,
          model_names_to_try, disc, di, available, models_tried, last_error,
          outcome, result, attempts, listFailed, filtered, skipped, lastFail,
          web>>

----------------------------------------------------------------------------
(* Bounds of the model *)

MaxTicks == 2
MaxInvocations == 2
NumFixed == 2
MaxDisc == 2
\* the same for the concurrent specification
ConcTicks == 1
ConcInvocations == 2
\* the most markers a response text of the parser specification holds
MaxMarkers == 4
\* the markers a response text of the repeated-marker specification holds
\* beyond the four of the full format
ExtraMarkers == 1
\* the tokens put before and after the core of an error message
MaxPad == 1
\* the download requests the web server gets
MaxDownloads == 2

\* the process() calls of the web specification
WebRequests == 2

(* Program constants *)

Cooldown == 300
\* src/app.py line 106: the least length of a job description
MinJobLength == 50

Procs == {1, 2}

None == <<"None">>

----------------------------------------------------------------------------
(* Text helpers *)

\* Python's `needle in text`: needle is a contiguous part of text
Contains(text, needle) ==
    \E i \in 1..(Len(text) - Len(needle) + 1) :
        SubSeq(text, i, i + Len(needle) - 1) = needle

\* str.lower() on one token
LowerTok(t) ==
    CASE t = "Quota" -> "quota"
      [] t = "RATE" -> "rate"
      [] t = "LIMIT" -> "limit"
      [] t = "Exceeded" -> "exceeded"
      [] t = "Resource" -> "resource"
      [] t = "API" -> "api"
      [] OTHER -> t

Lower(text) == [i \in 1..Len(text) |-> LowerTok(text[i])]

quota_keywords ==
    << <<"quota">>,
       <<"rate", " ", "limit">>,
       <<"exceeded">>,
       <<"too", " ", "many", " ", "requests">>,
       <<"429">>,
       <<"resource", " ", "exhausted">> >>

\* as is_quota_error, without the lower() of line 22
is_quota_errorCased(error_message) ==
    \E k \in 1..Len(quota_keywords) : Contains(error_message, quota_keywords[k])

\* lines 18-31
is_quota_error(error_message) ==
    LET error_str == Lower(error_message)
    IN  \E k \in 1..Len(quota_keywords) : Contains(error_str, quota_keywords[k])

\* str.replace('models/', ''): every occurrence is removed
StripModelsPrefix(name) == SelectSeq(name, LAMBDA t : t # "models/")

----------------------------------------------------------------------------
(* The fixed list and the inputs *)

PreferredModels ==
    << <<"gemini-2.5-flash">>,
       <<"gemini-2.5-flash-lite">>,
       <<"gemini-2.5-pro">>,
       <<"gemini-3-flash-preview">>,
       <<"gemini-3-pro-preview">>,
       <<"gemini-2.0-flash">> >>

\* the part of the fixed list the model explores
FixedList == SubSeq(PreferredModels, 1, NumFixed)

\* entries genai.list_models() may yield: name and whether 'generateContent'
\* is among supported_generation_methods
DiscEntries ==
    { [name |-> <<"models/", "gemini-2.5-flash">>, gen |-> TRUE],
      [name |-> <<"gemini-2.5-flash">>, gen |-> TRUE],
      [name |-> <<"models/", "gemini-1.5-pro">>, gen |-> TRUE],
      [name |-> <<"models/", "embedding-001">>, gen |-> FALSE] }

Discoveries == UNION { [1..n -> DiscEntries] : n \in 0..MaxDisc }

ErrorMessages ==
    { <<"429", " ", "Quota", " ", "exceeded">>,
      <<"API", " ", "key", " ", "invalid">> }

\* what an error message is about: each keyword as written in the list, in
\* other casings, and wordings that come close to a keyword
ErrorCores ==
    { <<"quota">>, <<"Quota">>,
      <<"rate", " ", "limit">>, <<"RATE", " ", "LIMIT">>, <<"rate", " ", "LIMIT">>,
      <<"exceeded">>, <<"Exceeded">>,
      <<"too", " ", "many", " ", "requests">>,
      <<"429">>,
      <<"resource", " ", "exhausted">>, <<"Resource", " ", "exhausted">>,
      <<"rate", "limit">>, <<"rate", " ">>, <<"LIMIT">>,
      <<"too", " ", "many">>, <<"many", " ", "requests">>,
      <<"Resource", " ">>, <<"exhausted", " ", "resource">>,
      <<"430">>, <<"API", " ", "key", " ", "invalid">>, <<>> }

\* k tokens of other text
Padding(k) == [i \in 1..k |-> IF i % 2 = 1 THEN "API" ELSE " "]

\* str(e) of the exceptions a generation call may raise
QuotaMessages(maxPad) ==
    { Padding(k) \o core \o Padding(k) : core \in ErrorCores, k \in 0..maxPad }

----------------------------------------------------------------------------
(* The response parser (lines 180-241) *)

\* index of the first occurrence of needle in text, 0 when there is none
Find(text, needle) ==
    IF Contains(text, needle)
    THEN CHOOSE i \in 1..(Len(text) - Len(needle) + 1) :
            /\ SubSeq(text, i, i + Len(needle) - 1) = needle
            /\ \A j \in 1..(i - 1) : SubSeq(text, j, j + Len(needle) - 1) # needle
    ELSE 0

\* the text itself in the place of text.split(needle)[0]
SplitHeadWhole(text, needle) == text

\* text.split(needle)[0]
SplitHead(text, needle) ==
    IF Contains(text, needle) THEN SubSeq(text, 1, Find(text, needle) - 1) ELSE text

\* text.split(needle)[1], used only where needle is in text: the piece between
\* the first occurrence and the next one (or the end)
SplitSecond(text, needle) ==
    LET rest == SubSeq(text, Find(text, needle) + Len(needle), Len(text))
    IN  SplitHead(rest, needle)

IsSpace(t) == t \in {" ", "\n"}

RECURSIVE LStrip(_)
LStrip(text) ==
    IF text # <<>> /\ IsSpace(Head(text)) THEN LStrip(Tail(text)) ELSE text

RECURSIVE RStrip(_)
RStrip(text) ==
    IF text # <<>> /\ IsSpace(text[Len(text)])
    THEN RStrip(SubSeq(text, 1, Len(text) - 1))
    ELSE text

\* str.lstrip() in the place of str.strip()
StripLeft(text) == LStrip(text)

\* str.strip()
Strip(text) == RStrip(LStrip(text))

IsDigit(t) == t \in {"0", "1", "2", "3", "4", "5", "6", "7", "8", "9"}

RECURSIVE DigitRun(_)
DigitRun(text) ==
    IF text # <<>> /\ IsDigit(Head(text))
    THEN <<Head(text)>> \o DigitRun(Tail(text))
    ELSE <<>>

\* re.findall(r'\d+', text)[0], <<>> when findall returns no match
RECURSIVE FirstNumber(_)
FirstNumber(text) ==
    IF text = <<>> THEN <<>>
    ELSE IF IsDigit(Head(text)) THEN DigitRun(text)
    ELSE FirstNumber(Tail(text))

NA == <<"N/A">>

DefaultSummary ==
    <<"CV optimized for job requirements with enhanced keywords and relevant experience highlighting.">>

M_ORIGINAL_MATCH_SCORE == <<"ORIGINAL_", "MATCH_SCORE:">>
M_MODIFIED_CV == <<"MODIFIED_", "CV:">>
M_MODIFIED_MATCH_SCORE == <<"MODIFIED_", "MATCH_SCORE:">>
M_MATCH_SCORE == <<"MATCH_SCORE:">>
M_CHANGES_SUMMARY == <<"CHANGES_SUMMARY:">>

\* the score section as it was captured
CleanScoreRaw(score) == score

\* lines 226-234: a non-empty score other than "N/A" becomes its first number,
\* when it has one
CleanScore(score) ==
    IF score # <<>> /\ score # NA /\ FirstNumber(score) # <<>>
    THEN FirstNumber(score)
    ELSE score

\* lines 181-222: the four sections before the scores are cleaned
Sections(response_text) ==
    LET empty == [cv |-> <<>>, orig |-> NA, mod |-> NA, summary |-> <<>>]
    IN
    IF Contains(response_text, M_ORIGINAL_MATCH_SCORE)
    THEN LET parts == SplitSecond(response_text, M_ORIGINAL_MATCH_SCORE)
         IN  IF Contains(parts, M_MODIFIED_CV)
             THEN LET orig == Strip(SplitHead(parts, M_MODIFIED_CV))
                      remaining == SplitSecond(parts, M_MODIFIED_CV)
                  IN  IF Contains(remaining, M_MODIFIED_MATCH_SCORE)
                      THEN LET cv == Strip(SplitHead(remaining, M_MODIFIED_MATCH_SCORE))
                               remaining2 == SplitSecond(remaining, M_MODIFIED_MATCH_SCORE)
                           IN  IF Contains(remaining2, M_CHANGES_SUMMARY)
                               THEN [cv |-> cv, orig |-> orig,
                                     mod |-> Strip(SplitHead(remaining2, M_CHANGES_SUMMARY)),
                                     summary |-> Strip(SplitSecond(remaining2, M_CHANGES_SUMMARY))]
                               ELSE [cv |-> cv, orig |-> orig,
                                     mod |-> Strip(remaining2), summary |-> <<>>]
                      ELSE [cv |-> Strip(remaining), orig |-> orig,
                            mod |-> NA, summary |-> <<>>]
             ELSE empty
    ELSE IF Contains(response_text, M_MODIFIED_CV)
         THEN LET parts == SplitSecond(response_text, M_MODIFIED_CV)
              IN  IF Contains(parts, M_MATCH_SCORE)
                  THEN LET cv == Strip(SplitHead(parts, M_MATCH_SCORE))
                           remaining == SplitSecond(parts, M_MATCH_SCORE)
                       IN  IF Contains(remaining, M_CHANGES_SUMMARY)
                           THEN [cv |-> cv, orig |-> NA,
                                 mod |-> Strip(SplitHead(remaining, M_CHANGES_SUMMARY)),
                                 summary |-> Strip(SplitSecond(remaining, M_CHANGES_SUMMARY))]
                           ELSE [cv |-> cv, orig |-> NA,
                                 mod |-> Strip(remaining), summary |-> <<>>]
                  ELSE [cv |-> Strip(parts), orig |-> NA, mod |-> NA, summary |-> <<>>]
         ELSE [cv |-> response_text, orig |-> NA, mod |-> NA, summary |-> <<>>]

\* the returned dict with the document stripped in every case
ParseResponseStripped(response_text) ==
    LET s == Sections(response_text)
    IN  [modified_cv |-> Strip(s.cv),
         original_match_score |-> CleanScore(s.orig),
         modified_match_score |-> CleanScore(s.mod),
         changes_summary |-> IF s.summary # <<>> THEN s.summary ELSE DefaultSummary]

\* lines 236-241: the returned dict
ParseResponse(response_text) ==
    LET s == Sections(response_text)
    IN  [modified_cv |-> s.cv,
         original_match_score |-> CleanScore(s.orig),
         modified_match_score |-> CleanScore(s.mod),
         changes_summary |-> IF s.summary # <<>> THEN s.summary ELSE DefaultSummary]

\* response texts a backend may return
Responses ==
    { <<"ORIGINAL_", "MATCH_SCORE:", "\n", "7", "2", "\n", "MODIFIED_", "CV:", "\n",
        "Hello", "\n", "MODIFIED_", "MATCH_SCORE:", "\n", "9", "1", "\n",
        "CHANGES_SUMMARY:", "\n", "Added keywords">>,
      <<"just some text">> }

\* the five marker literals the parser looks for
Markers ==
    << M_ORIGINAL_MATCH_SCORE, M_MODIFIED_CV, M_MODIFIED_MATCH_SCORE,
       M_MATCH_SCORE, M_CHANGES_SUMMARY >>

\* what a response text holds between its markers: nothing, a blank line, a
\* number above 100, a number inside words and before another number, words
\* without a digit, a zero, a line of text
Fillers ==
    << <<>>,
       <<"\n">>,
       <<"\n", "1", "5", "0", "\n">>,
       <<" ", "around", " ", "8", "5", "%", " ", "9">>,
       <<"\n", "high", "\n">>,
       <<"0">>,
       <<"\n", "Hello", " ", "World", "\n">> >>

\* up to maxMarkers markers in any order, repeated or not
Layouts(maxMarkers) == UNION { [1..n -> 1..Len(Markers)] : n \in 0..maxMarkers }

\* the filler of gap i (gap 0 is before the first marker): the gaps are filled
\* along an arithmetic progression, so that any two gaps fewer than
\* Len(Fillers) apart take every pair of fillers
Filler(a, b, i) == Fillers[((a + b * i) % Len(Fillers)) + 1]

RECURSIVE Compose(_, _, _, _)
Compose(layout, a, b, i) ==
    IF i > Len(layout)
    THEN <<>>
    ELSE (IF i = 0 THEN <<>> ELSE Markers[layout[i]])
            \o Filler(a, b, i) \o Compose(layout, a, b, i + 1)

\* the response texts of the parser specification
ParseTexts(maxMarkers) ==
    { Compose(layout, a, b, 0) :
        layout \in Layouts(maxMarkers), a \in 0..(Len(Fillers) - 1), b \in 0..(Len(Fillers) - 1) }

----------------------------------------------------------------------------
(* The quota map *)

\* as QuotaSet, with the stamp of a record already there left as it is
QuotaSetOnce(q, name, t) ==
    [n \in (DOMAIN q) \cup {name} |-> IF n \in DOMAIN q THEN q[n] ELSE t]

\* quota_exceeded_models[name] = t
QuotaSet(q, name, t) ==
    [n \in (DOMAIN q) \cup {name} |-> IF n = name THEN t ELSE q[n]]

\* del quota_exceeded_models[name]
QuotaDel(q, name) == [n \in (DOMAIN q) \ {name} |-> q[n]]

\* as CooldownOver, with >= for >
CooldownOverAtLimit(stamp, t) == t - stamp >= Cooldown

\* line 42-43: time_since_quota > 300, with the clock reading t
CooldownOver(stamp, t) == t - stamp > Cooldown

\* as AfterFailure, with the write of line 252 left out
AfterFailureNoRecord(q, name, message, t) == q

\* as AfterFailure, with line 252 outside the `if` of line 248
AfterFailureAlways(q, name, message, t) == QuotaSet(q, name, t)

\* lines 248-252: what a failed attempt leaves in the map
AfterFailure(q, name, message, t) ==
    IF is_quota_error(message) THEN QuotaSet(q, name, t) ELSE q

\* lines 33-48 run without interruption: the value is_model_available returns
is_model_available(q, model_name, t) ==
    IF model_name \notin DOMAIN q THEN TRUE ELSE CooldownOver(q[model_name], t)

\* as LastError, keeping the first error seen
LastErrorFirst(previous, e) == IF previous = None THEN e ELSE previous

\* line 244: last_error = str(e)
LastError(previous, e) == e

\* as NoCandidates, with the check of line 110 left out
NoCandidatesUnchecked(list) == FALSE

\* line 110: `if not model_names_to_try`
NoCandidates(list) == list = <<>>

\* as NextCandidate, walking the list from its end
NextCandidateBackwards(list, tried) == list[Len(list) - tried]

\* the first candidate again, whatever was tried
NextCandidateFirst(list, tried) == list[1]

\* line 168: the candidate the for loop takes after `tried` attempts
NextCandidate(list, tried) == list[tried + 1]

\* as OnListError, returning what was collected before the error
OnListErrorKeep(collected) == collected

\* lines 70-72: what get_available_models returns when listing raised
OnListError(collected) == <<>>

\* `x in list`
InList(x, list) == \E i \in 1..Len(list) : list[i] = x

\* as MergeApiModels, with line 107 testing `model` instead of `model_short`
RECURSIVE MergeApiModelsUnstripped(_, _)
MergeApiModelsUnstripped(list, api_models) ==
    IF api_models = <<>> THEN list
    ELSE MergeApiModelsUnstripped(
             IF InList(Head(api_models), list)
             THEN list
             ELSE <<StripModelsPrefix(Head(api_models))>> \o list,
             Tail(api_models))

\* lines 105-108: every API model not yet in the list goes to its front
RECURSIVE MergeApiModels(_, _)
MergeApiModels(list, api_models) ==
    IF api_models = <<>> THEN list
    ELSE LET model_short == StripModelsPrefix(Head(api_models))
         IN  MergeApiModels(IF InList(model_short, list)
                            THEN list
                            ELSE <<model_short>> \o list,
                            Tail(api_models))

\* line 111 and line 276-278: the two errors modify_cv_with_gemini raises
NoModelsError == [kind |-> "NoBackendsAvailable"]
AllFailedError(tried, last) ==
    [kind |-> "AllBackendsFailed", tried |-> tried, last |-> last]

\* what process() sends: the status, and of the JSON body the fields success,
\* error and session_id (0 where the body has none)
Answer(status, success, error, session_id) ==
    [status |-> status, success |-> success, error |-> error, session_id |-> session_id]

\* what download() sends: the status and the error of the JSON body (<<>>
\* where a file is sent), for the session id asked for
DownloadAnswer(session_id, status, error) ==
    [session_id |-> session_id, status |-> status, error |-> error]

\* no response yet
NoAnswer == Answer(0, FALSE, <<>>, 0)

\* src/app.py when the server has started: line 49, no request yet
WebInit ==
    [sessions_data |-> <<>>,
     request |-> [p \in Procs |-> 0],
     requests |-> 0,
     http |-> [p \in Procs |-> NoAnswer],
     served |-> [p \in Procs |-> "none"],
     download |-> DownloadAnswer(0, 0, <<>>),
     downloads |-> 0,
     stored |-> {},
     downloaded |-> {}]

sessions_data == web.sessions_data
request == web.request
requests == web.requests
http == web.http
served == web.served
\* the answer to the latest download request, and how many there were
download == web.download
downloads == web.downloads
\* history: the session ids process() answered with success, and the ids
\* download() was asked for while they were stored
stored == web.stored
downloaded == web.downloaded

----------------------------------------------------------------------------
(* The state machine *)

Init ==
    /\ quota_exceeded_models = <<>>
    /\ now = 0
    /\ ticks = 0
    /\ started = 0
    /\ pc = [p \in Procs |-> "idle"]
    /\ ima = [p \in Procs |-> "test"]
    /\ fi = [p \in Procs |-> 1]
    /\ model_names_to_try = [p \in Procs |-> <<>>]
    /\ disc = [p \in Procs |-> <<>>]
    /\ di = [p \in Procs |-> 1]
    /\ available = [p \in Procs |-> <<>>]
    /\ models_tried = [p \in Procs |-> 0]
    /\ last_error = [p \in Procs |-> None]
    /\ outcome = [p \in Procs |-> "none"]
    /\ result = [p \in Procs |-> None]
    /\ attempts = [p \in Procs |-> <<>>]
    /\ listFailed = [p \in Procs |-> FALSE]
    /\ filtered = [p \in Procs |-> <<>>]
    /\ skipped = [p \in Procs |-> FALSE]
    /\ lastFail = <<>>
    /\ web = WebInit

history == <<attempts, listFailed, filtered, skipped, lastFail>>
clock == <<now, ticks>>

\* time passes, by a second or by the length of the cooldown, between
\* invocations and while one waits for the network (lines 56 and 173); the
\* steps between take no time
Tick(maxTicks) ==
    /\ ticks < maxTicks
    /\ \/ \A p \in Procs : pc[p] = "idle"
       \/ \E p \in Procs : pc[p] \in {"list", "wait"}
    /\ \E d \in {1, Cooldown} : now' = now + d
    /\ ticks' = ticks + 1
    /\ UNCHANGED <<quota_exceeded_models, started, pc, ima, fi, model_names_to_try,
                   disc, di, available, models_tried, last_error, outcome, result,
                   history>>
    /\ UNCHANGED web

\* modify_cv_with_gemini is called: lines 86-93
Start(p, maxInvocations) ==
    /\ pc[p] = "idle"
    /\ started < maxInvocations
    /\ started' = started + 1
    /\ pc' = [pc EXCEPT ![p] = "filter"]
    /\ ima' = [ima EXCEPT ![p] = "test"]
    /\ fi' = [fi EXCEPT ![p] = 1]
    /\ model_names_to_try' = [model_names_to_try EXCEPT ![p] = <<>>]
    /\ disc' = [disc EXCEPT ![p] = <<>>]
    /\ di' = [di EXCEPT ![p] = 1]
    /\ available' = [available EXCEPT ![p] = <<>>]
    /\ models_tried' = [models_tried EXCEPT ![p] = 0]
    /\ last_error' = [last_error EXCEPT ![p] = None]
    /\ outcome' = [outcome EXCEPT ![p] = "none"]
    /\ result' = [result EXCEPT ![p] = None]
    /\ attempts' = [attempts EXCEPT ![p] = <<>>]
    /\ listFailed' = [listFailed EXCEPT ![p] = FALSE]
    /\ filtered' = [filtered EXCEPT ![p] = <<>>]
    /\ skipped' = [skipped EXCEPT ![p] = FALSE]
    /\ UNCHANGED <<quota_exceeded_models, clock, lastFail>>
    /\ UNCHANGED web

\* the name is_model_available is working on: an entry of the fixed list
\* (line 96) or of the discovered models (line 60)
InCall(p) ==
    \/ pc[p] = "filter" /\ fi[p] <= Len(FixedList)
    \/ pc[p] = "scan" /\ di[p] <= Len(disc[p]) /\ disc[p][di[p]].gen

CurName(p) == IF pc[p] = "filter" THEN FixedList[fi[p]] ELSE disc[p][di[p]].name

\* is_model_available returns r to line 96 or to line 60
ImaReturn(p, r) ==
    /\ ima' = [ima EXCEPT ![p] = "test"]
    /\ IF pc[p] = "filter"
       THEN /\ model_names_to_try' =
                   [model_names_to_try EXCEPT
                       ![p] = IF r THEN Append(@, CurName(p)) ELSE @]
            /\ fi' = [fi EXCEPT ![p] = @ + 1]
            /\ UNCHANGED <<available, di>>
       ELSE /\ available' =
                   [available EXCEPT ![p] = IF r THEN Append(@, CurName(p)) ELSE @]
            /\ di' = [di EXCEPT ![p] = @ + 1]
            /\ UNCHANGED <<model_names_to_try, fi>>
    /\ UNCHANGED <<pc, outcome, result, disc>>

\* is_model_available raises KeyError: out of line 96 it ends the invocation,
\* inside get_available_models line 70 catches it and [] is returned
ImaKeyError(p) ==
    /\ ima' = [ima EXCEPT ![p] = "test"]
    /\ IF pc[p] = "filter"
       THEN /\ pc' = [pc EXCEPT ![p] = "done"]
            /\ outcome' = [outcome EXCEPT ![p] = "KeyError"]
            /\ result' = [result EXCEPT ![p] = [kind |-> "KeyError"]]
            /\ UNCHANGED <<available, disc, di>>
       ELSE /\ pc' = [pc EXCEPT ![p] = "merge"]
            /\ available' = [available EXCEPT ![p] = OnListError(@)]
            /\ disc' = [disc EXCEPT ![p] = <<>>]
            /\ di' = [di EXCEPT ![p] = 1]
            /\ UNCHANGED <<outcome, result>>
    /\ UNCHANGED <<model_names_to_try, fi>>

\* line 38
ImaTest(p) ==
    /\ InCall(p)
    /\ ima[p] = "test"
    /\ IF CurName(p) \notin DOMAIN quota_exceeded_models
       THEN ImaReturn(p, TRUE)
       ELSE /\ ima' = [ima EXCEPT ![p] = "read"]
            /\ UNCHANGED <<pc, outcome, result, model_names_to_try, fi, available,
                           di, disc>>
    /\ UNCHANGED <<quota_exceeded_models, clock, started, models_tried,
                   last_error, history>>
    /\ UNCHANGED web

\* lines 42-43 (and 48)
ImaRead(p) ==
    /\ InCall(p)
    /\ ima[p] = "read"
    /\ IF CurName(p) \notin DOMAIN quota_exceeded_models
       THEN ImaKeyError(p)
       ELSE IF CooldownOver(quota_exceeded_models[CurName(p)], now)
            THEN /\ ima' = [ima EXCEPT ![p] = "del"]
                 /\ UNCHANGED <<pc, outcome, result, model_names_to_try, fi,
                                available, di, disc>>
            ELSE ImaReturn(p, FALSE)
    /\ UNCHANGED <<quota_exceeded_models, clock, started, models_tried,
                   last_error, history>>
    /\ UNCHANGED web

\* lines 45-46
ImaDel(p) ==
    /\ InCall(p)
    /\ ima[p] = "del"
    /\ IF CurName(p) \notin DOMAIN quota_exceeded_models
       THEN ImaKeyError(p) /\ UNCHANGED quota_exceeded_models
       ELSE /\ quota_exceeded_models' = QuotaDel(quota_exceeded_models, CurName(p))
            /\ ImaReturn(p, TRUE)
    /\ UNCHANGED <<clock, started, models_tried, last_error, history>>
    /\ UNCHANGED web

\* line 96 is through the fixed list; line 102 calls get_available_models
FilterDone(p) ==
    /\ pc[p] = "filter"
    /\ fi[p] > Len(FixedList)
    /\ pc' = [pc EXCEPT ![p] = "list"]
    /\ filtered' = [filtered EXCEPT ![p] = model_names_to_try[p]]
    /\ UNCHANGED <<quota_exceeded_models, clock, started, ima, fi, model_names_to_try,
                   disc, di, available, models_tried, last_error, outcome, result,
                   attempts, listFailed, skipped, lastFail>>
    /\ UNCHANGED web

\* line 56: genai.list_models() answers
ListModels(p, discoveries) ==
    /\ pc[p] = "list"
    /\ \E d \in discoveries : disc' = [disc EXCEPT ![p] = d]
    /\ di' = [di EXCEPT ![p] = 1]
    /\ pc' = [pc EXCEPT ![p] = "scan"]
    /\ UNCHANGED <<quota_exceeded_models, clock, started, ima, fi, model_names_to_try,
                   available, models_tried, last_error, outcome, result, history>>
    /\ UNCHANGED web

\* lines 56-58 raise (the query, or the iteration over its pages): lines 70-72
\* return [] and the locals of get_available_models are gone
ListModelsFails(p) ==
    /\ \/ pc[p] = "list"
       \/ pc[p] = "scan" /\ ima[p] = "test"
    /\ available' = [available EXCEPT ![p] = OnListError(@)]
    /\ listFailed' = [listFailed EXCEPT ![p] = TRUE]
    /\ disc' = [disc EXCEPT ![p] = <<>>]
    /\ di' = [di EXCEPT ![p] = 1]
    /\ pc' = [pc EXCEPT ![p] = "merge"]
    /\ UNCHANGED <<quota_exceeded_models, clock, started, ima, fi, model_names_to_try,
                   models_tried, last_error, outcome, result,
                   attempts, filtered, skipped, lastFail>>
    /\ UNCHANGED web

\* line 59: a model without 'generateContent' is passed over
ScanSkip(p) ==
    /\ pc[p] = "scan"
    /\ di[p] <= Len(disc[p])
    /\ ~disc[p][di[p]].gen
    /\ di' = [di EXCEPT ![p] = @ + 1]
    /\ UNCHANGED <<quota_exceeded_models, clock, started, pc, ima, fi,
                   model_names_to_try, disc, available, models_tried, last_error,
                   outcome, result, history>>
    /\ UNCHANGED web

\* line 69: get_available_models returns; its locals other than the returned
\* list are gone
ScanDone(p) ==
    /\ pc[p] = "scan"
    /\ di[p] > Len(disc[p])
    /\ disc' = [disc EXCEPT ![p] = <<>>]
    /\ di' = [di EXCEPT ![p] = 1]
    /\ pc' = [pc EXCEPT ![p] = "merge"]
    /\ UNCHANGED <<quota_exceeded_models, clock, started, ima, fi, model_names_to_try,
                   available, models_tried, last_error, outcome, result,
                   history>>
    /\ UNCHANGED web

\* lines 105-111: the API models are merged in; an empty list raises.
\* api_models is not read again
Merge(p) ==
    /\ pc[p] = "merge"
    /\ LET list == MergeApiModels(model_names_to_try[p], available[p])
       IN  /\ model_names_to_try' = [model_names_to_try EXCEPT ![p] = list]
           /\ skipped' = [skipped EXCEPT ![p] =
                  Len(list) < Len(model_names_to_try[p]) + Len(available[p])]
           /\ IF NoCandidates(list)
              THEN /\ pc' = [pc EXCEPT ![p] = "done"]
                   /\ outcome' = [outcome EXCEPT ![p] = "NoBackendsAvailable"]
                   /\ result' = [result EXCEPT ![p] = NoModelsError]
              ELSE /\ pc' = [pc EXCEPT ![p] = "attempt"]
                   /\ UNCHANGED <<outcome, result>>
    /\ available' = [available EXCEPT ![p] = <<>>]
    /\ UNCHANGED <<quota_exceeded_models, clock, started, ima, fi, disc, di,
                   models_tried, last_error, attempts, listFailed, filtered, lastFail>>
    /\ UNCHANGED web

\* lines 168-173: the next candidate's generate_content call goes out
Issue(p) ==
    /\ pc[p] = "attempt"
    /\ models_tried[p] < Len(model_names_to_try[p])
    /\ models_tried' = [models_tried EXCEPT ![p] = @ + 1]
    /\ pc' = [pc EXCEPT ![p] = "wait"]
    /\ attempts' = [attempts EXCEPT ![p] =
            Append(@, [name |-> NextCandidate(model_names_to_try[p], models_tried[p]),
                       status |-> "pending", text |-> None])]
    /\ UNCHANGED <<quota_exceeded_models, clock, started, ima, fi, model_names_to_try,
                   disc, di, available, last_error, outcome, result,
                   listFailed, filtered, skipped, lastFail>>
    /\ UNCHANGED web

\* lines 173-241: the call answers, the response is parsed and returned
Succeed(p, responses) ==
    /\ pc[p] = "wait"
    /\ \E response_text \in responses :
          /\ result' = [result EXCEPT ![p] = ParseResponse(response_text)]
          /\ attempts' = [attempts EXCEPT ![p][Len(attempts[p])] =
                  [@ EXCEPT !.status = "ok", !.text = response_text]]
    /\ outcome' = [outcome EXCEPT ![p] = "ok"]
    /\ pc' = [pc EXCEPT ![p] = "done"]
    /\ UNCHANGED <<quota_exceeded_models, clock, started, ima, fi, model_names_to_try,
                   disc, di, available, models_tried, last_error,
                   listFailed, filtered, skipped, lastFail>>
    /\ UNCHANGED web

\* lines 243-260: the call raises
Fail(p, errors) ==
    /\ pc[p] = "wait"
    /\ \E e \in errors :
          LET model_name == attempts[p][Len(attempts[p])].name
          IN  /\ last_error' = [last_error EXCEPT ![p] = LastError(@, e)]
              /\ quota_exceeded_models' =
                     AfterFailure(quota_exceeded_models, model_name, e, now)
              /\ lastFail' = IF is_quota_error(e)
                             THEN QuotaSet(lastFail, model_name, now)
                             ELSE lastFail
              /\ attempts' = [attempts EXCEPT ![p][Len(attempts[p])] =
                      [@ EXCEPT !.status = "error", !.text = e]]
    /\ pc' = [pc EXCEPT ![p] = "attempt"]
    /\ UNCHANGED <<clock, started, ima, fi, model_names_to_try, disc, di, available,
                   models_tried, outcome, result, listFailed, filtered, skipped>>
    /\ UNCHANGED web

\* lines 262-278: the loop ran out of candidates
Exhausted(p) ==
    /\ pc[p] = "attempt"
    /\ models_tried[p] >= Len(model_names_to_try[p])
    /\ outcome' = [outcome EXCEPT ![p] = "AllBackendsFailed"]
    /\ result' = [result EXCEPT ![p] = AllFailedError(models_tried[p], last_error[p])]
    /\ pc' = [pc EXCEPT ![p] = "done"]
    /\ UNCHANGED <<quota_exceeded_models, clock, started, ima, fi, model_names_to_try,
                   disc, di, available, models_tried, last_error, history>>
    /\ UNCHANGED web

\* the caller has the result or the error; the locals are gone
Return(p) ==
    /\ pc[p] = "done"
    /\ pc' = [pc EXCEPT ![p] = "idle"]
    /\ fi' = [fi EXCEPT ![p] = 1]
    /\ model_names_to_try' = [model_names_to_try EXCEPT ![p] = <<>>]
    /\ disc' = [disc EXCEPT ![p] = <<>>]
    /\ di' = [di EXCEPT ![p] = 1]
    /\ available' = [available EXCEPT ![p] = <<>>]
    /\ models_tried' = [models_tried EXCEPT ![p] = 0]
    /\ last_error' = [last_error EXCEPT ![p] = None]
    /\ outcome' = [outcome EXCEPT ![p] = "none"]
    /\ result' = [result EXCEPT ![p] = None]
    /\ attempts' = [attempts EXCEPT ![p] = <<>>]
    /\ listFailed' = [listFailed EXCEPT ![p] = FALSE]
    /\ filtered' = [filtered EXCEPT ![p] = <<>>]
    /\ skipped' = [skipped EXCEPT ![p] = FALSE]
    /\ UNCHANGED <<quota_exceeded_models, clock, started, ima, lastFail>>
    /\ UNCHANGED web

----------------------------------------------------------------------------
(* test_gemini_connection (lines 280-304) *)

\* lines 57-61 run without interruption: the names get_available_models
\* returns from the entries list_models yielded
AvailableModels(q, entries, t) ==
    LET usable == SelectSeq(entries,
                            LAMBDA e : e.gen /\ is_model_available(q, e.name, t))
    IN  [i \in 1..Len(usable) |-> usable[i].name]

\* lines 44-46 inside that loop: the expired records of the entries are deleted
AfterScan(q, entries, t) ==
    LET expired == { n \in DOMAIN q :
                       /\ \E i \in 1..Len(entries) : entries[i].gen /\ entries[i].name = n
                       /\ CooldownOver(q[n], t) }
    IN  [n \in (DOMAIN q) \ expired |-> q[n]]

\* what test_gemini_connection returns: the flag of the pair
TestResult(success) == [kind |-> "Test", success |-> success]

\* test_gemini_connection is called
TestStart(p, maxInvocations) ==
    /\ pc[p] = "idle"
    /\ started < maxInvocations
    /\ started' = started + 1
    /\ pc' = [pc EXCEPT ![p] = "t_list"]
    /\ UNCHANGED <<quota_exceeded_models, clock, ima, fi, model_names_to_try, disc, di,
                   available, models_tried, last_error, outcome, result, history>>
    /\ UNCHANGED web

\* lines 285-288: get_available_models answers; an empty list ends the test
TestList(p, discoveries) ==
    /\ pc[p] = "t_list"
    /\ \E d \in discoveries :
          LET available_models == AvailableModels(quota_exceeded_models, d, now)
          IN  /\ available' = [available EXCEPT ![p] = available_models]
              /\ quota_exceeded_models' = AfterScan(quota_exceeded_models, d, now)
              /\ IF available_models = <<>>
                 THEN /\ pc' = [pc EXCEPT ![p] = "done"]
                      /\ outcome' = [outcome EXCEPT ![p] = "TestNoModels"]
                      /\ result' = [result EXCEPT ![p] = TestResult(FALSE)]
                 ELSE /\ pc' = [pc EXCEPT ![p] = "t_call"]
                      /\ UNCHANGED <<outcome, result>>
    /\ UNCHANGED <<clock, started, ima, fi, model_names_to_try, disc, di,
                   models_tried, last_error, history>>
    /\ UNCHANGED web

\* lines 56-58 raise inside get_available_models: [] comes back (lines 70-72)
TestListFails(p) ==
    /\ pc[p] = "t_list"
    /\ pc' = [pc EXCEPT ![p] = "done"]
    /\ outcome' = [outcome EXCEPT ![p] = "TestNoModels"]
    /\ result' = [result EXCEPT ![p] = TestResult(FALSE)]
    /\ listFailed' = [listFailed EXCEPT ![p] = TRUE]
    /\ UNCHANGED <<quota_exceeded_models, clock, started, ima, fi, model_names_to_try,
                   disc, di, available, models_tried, last_error,
                   attempts, filtered, skipped, lastFail>>
    /\ UNCHANGED web

\* lines 290-294: the call to the next available model goes out
TestIssue(p) ==
    /\ pc[p] = "t_call"
    /\ models_tried[p] < Len(available[p])
    /\ models_tried' = [models_tried EXCEPT ![p] = @ + 1]
    /\ pc' = [pc EXCEPT ![p] = "t_wait"]
    /\ attempts' = [attempts EXCEPT ![p] =
            Append(@, [name |-> available[p][models_tried[p] + 1],
                       status |-> "pending", text |-> <<>>])]
    /\ UNCHANGED <<quota_exceeded_models, clock, started, ima, fi, model_names_to_try,
                   disc, di, available, last_error, outcome, result,
                   listFailed, filtered, skipped, lastFail>>
    /\ UNCHANGED web

\* line 295: the call answers and the test returns True
TestSucceed(p) ==
    /\ pc[p] = "t_wait"
    /\ attempts' = [attempts EXCEPT ![p][Len(attempts[p])] = [@ EXCEPT !.status = "ok"]]
    /\ outcome' = [outcome EXCEPT ![p] = "TestOk"]
    /\ result' = [result EXCEPT ![p] = TestResult(TRUE)]
    /\ pc' = [pc EXCEPT ![p] = "done"]
    /\ UNCHANGED <<quota_exceeded_models, clock, started, ima, fi, model_names_to_try,
                   disc, di, available, models_tried, last_error,
                   listFailed, filtered, skipped, lastFail>>
    /\ UNCHANGED web

\* lines 296-302: the call raises; a quota error is recorded under model_name,
\* the name get_available_models returned
TestFail(p, errors) ==
    /\ pc[p] = "t_wait"
    /\ \E e \in errors :
          LET model_name == attempts[p][Len(attempts[p])].name
          IN  /\ quota_exceeded_models' =
                     AfterFailure(quota_exceeded_models, model_name, e, now)
              /\ lastFail' = IF is_quota_error(e)
                             THEN QuotaSet(lastFail, model_name, now)
                             ELSE lastFail
              /\ attempts' = [attempts EXCEPT ![p][Len(attempts[p])] =
                      [@ EXCEPT !.status = "error", !.text = e]]
    /\ pc' = [pc EXCEPT ![p] = "t_call"]
    /\ UNCHANGED <<clock, started, ima, fi, model_names_to_try, disc, di, available,
                   models_tried, last_error, outcome, result, listFailed, filtered,
                   skipped>>
    /\ UNCHANGED web

\* line 304: no model answered
TestExhausted(p) ==
    /\ pc[p] = "t_call"
    /\ models_tried[p] >= Len(available[p])
    /\ outcome' = [outcome EXCEPT ![p] = "TestAllFailed"]
    /\ result' = [result EXCEPT ![p] = TestResult(FALSE)]
    /\ pc' = [pc EXCEPT ![p] = "done"]
    /\ UNCHANGED <<quota_exceeded_models, clock, started, ima, fi, model_names_to_try,
                   disc, di, available, models_tried, last_error, history>>
    /\ UNCHANGED web

----------------------------------------------------------------------------
(* The specifications *)

\* the concurrent specification draws its inputs from smaller sets
ConcDiscoveries ==
    { <<>>, <<[name |-> <<"models/", "gemini-2.5-flash">>, gen |-> TRUE]>>,
      <<[name |-> <<"models/", "embedding-001">>, gen |-> FALSE]>> }
ConcErrors == { <<"429", " ", "Quota", " ", "exceeded">> }
ConcResponses == { <<"just some text">> }

\* one invocation at a time (the command-line scripts, a single-threaded server)
Next ==
    \/ Tick(MaxTicks)
    \/ Start(1, MaxInvocations)
    \/ ImaTest(1)
    \/ ImaRead(1)
    \/ ImaDel(1)
    \/ FilterDone(1)
    \/ ListModels(1, Discoveries)
    \/ ListModelsFails(1)
    \/ ScanSkip(1)
    \/ ScanDone(1)
    \/ Merge(1)
    \/ Issue(1)
    \/ Succeed(1, Responses)
    \/ Fail(1, ErrorMessages)
    \/ Exhausted(1)
    \/ Return(1)

Spec == Init /\ [][Next]_vars

\* A state the sequential program reaches (by Fail at time 0, Return and two
\* Ticks): the first fixed model failed on quota at time 0 and its record has
\* just expired; no invocation is running
InitConc ==
    /\ quota_exceeded_models = QuotaSet(<<>>, FixedList[1], 0)
    /\ lastFail = QuotaSet(<<>>, FixedList[1], 0)
    /\ now = Cooldown + 1
    /\ ticks = 0
    /\ started = 0
    /\ pc = [p \in Procs |-> "idle"]
    /\ ima = [p \in Procs |-> "test"]
    /\ fi = [p \in Procs |-> 1]
    /\ model_names_to_try = [p \in Procs |-> <<>>]
    /\ disc = [p \in Procs |-> <<>>]
    /\ di = [p \in Procs |-> 1]
    /\ available = [p \in Procs |-> <<>>]
    /\ models_tried = [p \in Procs |-> 0]
    /\ last_error = [p \in Procs |-> None]
    /\ outcome = [p \in Procs |-> "none"]
    /\ result = [p \in Procs |-> None]
    /\ attempts = [p \in Procs |-> <<>>]
    /\ listFailed = [p \in Procs |-> FALSE]
    /\ filtered = [p \in Procs |-> <<>>]
    /\ skipped = [p \in Procs |-> FALSE]
    /\ web = WebInit

\* concurrent invocations, interleaved at the steps above (the threaded server
\* of src/app.py)
NextConc ==
    \/ Tick(ConcTicks)
    \/ \E p \in Procs :
          \/ Start(p, ConcInvocations)
          \/ ImaTest(p)
          \/ ImaRead(p)
          \/ ImaDel(p)
          \/ FilterDone(p)
          \/ ListModels(p, ConcDiscoveries)
          \/ ListModelsFails(p)
          \/ ScanSkip(p)
          \/ ScanDone(p)
          \/ Merge(p)
          \/ Issue(p)
          \/ Succeed(p, ConcResponses)
          \/ Fail(p, ConcErrors)
          \/ Exhausted(p)
          \/ Return(p)

SpecConc == InitConc /\ [][NextConc]_vars

\* the index of marker m in Markers
MarkerIndex(m) == CHOOSE k \in 1..Len(Markers) : Markers[k] = m

\* layout with marker k put in after its first i markers
WithMarker(layout, i, k) ==
    SubSeq(layout, 1, i) \o <<k>> \o SubSeq(layout, i + 1, Len(layout))

\* the layouts with the four markers of the full format in their order and
\* `extra` more markers anywhere
RECURSIVE RepeatLayouts(_)
RepeatLayouts(extra) ==
    IF extra = 0
    THEN { << MarkerIndex(M_ORIGINAL_MATCH_SCORE), MarkerIndex(M_MODIFIED_CV),
              MarkerIndex(M_MODIFIED_MATCH_SCORE), MarkerIndex(M_CHANGES_SUMMARY) >> }
    ELSE { WithMarker(layout, i, k) :
             layout \in RepeatLayouts(extra - 1),
             i \in 0..(Len(Markers) - 2 + extra), k \in 1..Len(Markers) }

\* the response texts of the repeated-marker specification
RepeatTexts(extra) ==
    { Compose(layout, a, b, 0) :
        layout \in RepeatLayouts(extra),
        a \in 0..(Len(Fillers) - 1), b \in 0..(Len(Fillers) - 1) }

\* one invocation whose first candidate answers with any of the response texts
NextParse ==
    \/ Start(1, 1)
    \/ ImaTest(1)
    \/ FilterDone(1)
    \/ ListModelsFails(1)
    \/ Merge(1)
    \/ Issue(1)
    \/ Succeed(1, ParseTexts(MaxMarkers))
    \/ Return(1)

SpecParse == Init /\ [][NextParse]_vars

\* the entries list_models yields in the connection-test specification: the
\* first fixed model under the name the API gives it, and under its bare name
TestDiscoveries ==
    { <<>>,
      <<[name |-> <<"models/", "gemini-2.5-flash">>, gen |-> TRUE]>>,
      <<[name |-> <<"gemini-2.5-flash">>, gen |-> TRUE]>>,
      <<[name |-> <<"models/", "embedding-001">>, gen |-> FALSE]>> }

\* a connection test, then invocations, one call at a time in one process
NextTest ==
    \/ Tick(MaxTicks)
    \/ started = 0 /\ TestStart(1, ConcInvocations)
    \/ TestList(1, TestDiscoveries)
    \/ TestListFails(1)
    \/ TestIssue(1)
    \/ TestSucceed(1)
    \/ TestFail(1, ErrorMessages)
    \/ TestExhausted(1)
    \/ started > 0 /\ Start(1, ConcInvocations)
    \/ ImaTest(1)
    \/ ImaRead(1)
    \/ ImaDel(1)
    \/ FilterDone(1)
    \/ ListModels(1, TestDiscoveries)
    \/ ListModelsFails(1)
    \/ ScanSkip(1)
    \/ ScanDone(1)
    \/ Merge(1)
    \/ Issue(1)
    \/ Succeed(1, ConcResponses)
    \/ Fail(1, ErrorMessages)
    \/ Exhausted(1)
    \/ Return(1)

SpecTest == Init /\ [][NextTest]_vars

\* one invocation in which every generation call raises
NextErrors ==
    \/ Start(1, 1)
    \/ ImaTest(1)
    \/ FilterDone(1)
    \/ ListModelsFails(1)
    \/ Merge(1)
    \/ Issue(1)
    \/ Fail(1, QuotaMessages(MaxPad))
    \/ Exhausted(1)
    \/ Return(1)

SpecErrors == Init /\ [][NextErrors]_vars

\* one invocation whose first candidate answers with a full-format text that
\* holds further markers
NextRepeat ==
    \/ Start(1, 1)
    \/ ImaTest(1)
    \/ FilterDone(1)
    \/ ListModelsFails(1)
    \/ Merge(1)
    \/ Issue(1)
    \/ Succeed(1, RepeatTexts(ExtraMarkers))
    \/ Return(1)

SpecRepeat == Init /\ [][NextRepeat]_vars

\* a catalogue with a second model that the fixed list does not name
CatalogEntries ==
    DiscEntries \cup { [name |-> <<"models/", "gemini-1.5-flash">>, gen |-> TRUE] }

CatalogDiscoveries == UNION { [1..n -> CatalogEntries] : n \in 0..MaxDisc }

\* one invocation, with discovery answering from the larger catalogue
NextCatalog ==
    \/ Start(1, 1)
    \/ ImaTest(1)
    \/ FilterDone(1)
    \/ ListModels(1, CatalogDiscoveries)
    \/ ScanSkip(1)
    \/ ScanDone(1)
    \/ Merge(1)
    \/ Issue(1)
    \/ Succeed(1, ConcResponses)
    \/ Return(1)

SpecCatalog == Init /\ [][NextCatalog]_vars

\* one invocation at a time with the smaller inputs, and every step of a
\* running invocation taken in the end: the interpreter goes on, list_models
\* and generate_content return or raise
NextFair ==
    \/ Tick(MaxTicks)
    \/ Start(1, ConcInvocations)
    \/ ImaTest(1)
    \/ ImaRead(1)
    \/ ImaDel(1)
    \/ FilterDone(1)
    \/ ListModels(1, ConcDiscoveries)
    \/ ListModelsFails(1)
    \/ ScanSkip(1)
    \/ ScanDone(1)
    \/ Merge(1)
    \/ Issue(1)
    \/ Succeed(1, ConcResponses)
    \/ Fail(1, ErrorMessages)
    \/ Exhausted(1)
    \/ Return(1)

Fairness ==
    /\ WF_vars(ImaTest(1))
    /\ WF_vars(ImaRead(1))
    /\ WF_vars(ImaDel(1))
    /\ WF_vars(FilterDone(1))
    /\ WF_vars(ListModels(1, ConcDiscoveries) \/ ListModelsFails(1))
    /\ WF_vars(ScanSkip(1))
    /\ WF_vars(ScanDone(1))
    /\ WF_vars(Merge(1))
    /\ WF_vars(Issue(1))
    /\ WF_vars(Succeed(1, ConcResponses) \/ Fail(1, ErrorMessages))
    /\ WF_vars(Exhausted(1))

SpecFair == Init /\ [][NextFair]_vars /\ Fairness

----------------------------------------------------------------------------
(* The web operations process() and download() of src/app.py (lines 59-328) *)

ALLOWED_EXTENSIONS == { <<"docx">>, <<"doc">> }

\* line 51-53: allowed_file
allowed_file(filename) ==
    /\ Contains(filename, <<".">>)
    /\ LET dot == CHOOSE i \in 1..Len(filename) :
                     /\ filename[i] = "."
                     /\ \A j \in (i + 1)..Len(filename) : filename[j] # "."
       IN  Lower(SubSeq(filename, dot + 1, Len(filename))) \in ALLOWED_EXTENSIONS

\* the uploads and form fields of a request: the file part (None when the
\* request has none), the stripped lengths of job_text, the kind of job_url,
\* and what the scraper, read_docx would do if called
WebRequestInputs ==
    [ cv_file   : { None, <<>>, <<"cv", ".", "docx">>, <<"cv", ".", "pdf">>, <<"cv">> },
      job_text  : { 0, MinJobLength - 1, MinJobLength },
      job_url   : { "", "not a url", "url" },
      scrape_ok : BOOLEAN,
      read_ok   : BOOLEAN ]

\* lines 62-110: the early returns of process(); NoAnswer when line 113 is
\* reached
Validate(r) ==
    IF r.cv_file = None THEN Answer(400, FALSE, <<"No file uploaded">>, 0)
    ELSE IF r.cv_file = <<>> THEN Answer(400, FALSE, <<"No file selected">>, 0)
    ELSE IF ~allowed_file(r.cv_file)
         THEN Answer(400, FALSE, <<"Only .docx and .doc files are allowed">>, 0)
    ELSE IF r.job_url = "" /\ r.job_text = 0
         THEN Answer(400, FALSE,
                     <<"Please provide either a job URL or paste the job description">>, 0)
    ELSE IF r.job_text = 0 /\ r.job_url = "not a url"
         THEN Answer(400, FALSE, <<"Invalid URL format">>, 0)
    ELSE IF r.job_text = 0 /\ ~r.scrape_ok
         THEN Answer(400, FALSE, <<"Unable to extract job description.">>, 0)
    ELSE IF r.job_text # 0 /\ r.job_text < MinJobLength
         THEN Answer(400, FALSE, <<"Job description is too short or empty.">>, 0)
    ELSE IF ~r.read_ok
         THEN Answer(500, FALSE, <<"Processing error: ", "Error reading DOCX file">>, 0)
    ELSE NoAnswer

\* the keys of the result that lines 118-129 read, in the order they are read
KeysRead == << "modified_cv", "modified_cv", "match_score", "changes_summary" >>

\* the first key read that the dict d does not hold, "" when it holds them all
RECURSIVE MissingKey(_, _)
MissingKey(d, keys) ==
    IF keys = <<>> THEN ""
    ELSE IF Head(keys) \notin DOMAIN d THEN Head(keys)
    ELSE MissingKey(d, Tail(keys))

\* a request arrives and is answered early, or goes on to line 113 with a
\* fresh session id
ProcessRequest(p, inputs) ==
    /\ pc[p] = "idle"
    /\ request[p] = 0
    /\ requests < WebRequests
    /\ \E r \in inputs :
          web' = [web EXCEPT
                    !.requests = @ + 1,
                    !.http[p] = Validate(r),
                    !.request[p] = IF Validate(r) = NoAnswer THEN requests + 1 ELSE 0,
                    !.served[p] = "none"]
    /\ UNCHANGED <<quota_exceeded_models, clock, started, pc, ima, fi,
                   model_names_to_try, disc, di, available, models_tried, last_error,
                   outcome, result, history>>

\* lines 116-118: write_docx, given result['modified_cv'], raised
AnswerNotWritten(p) ==
    web' = [web EXCEPT
              !.http[p] = Answer(500, FALSE,
                                 <<"Processing error: ", "Error writing DOCX file">>, 0),
              !.request[p] = 0,
              !.served[p] = outcome[p]]

\* as AnswerKeyError, with the entry stored before the KeyError is raised
AnswerKeyErrorStored(p) ==
    web' = [web EXCEPT
              !.sessions_data =
                  [s \in DOMAIN sessions_data \cup {request[p]} |->
                      IF s = request[p]
                      THEN [modified_cv |-> result[p].modified_cv]
                      ELSE sessions_data[s]],
              !.http[p] = Answer(500, FALSE,
                                 <<"Processing error: ",
                                   MissingKey(result[p], KeysRead)>>, 0),
              !.request[p] = 0,
              !.served[p] = outcome[p]]

\* lines 121-143 with a result that lacks a key they read: KeyError, caught
AnswerKeyError(p) ==
    web' = [web EXCEPT
              !.http[p] = Answer(500, FALSE,
                                 <<"Processing error: ",
                                   MissingKey(result[p], KeysRead)>>, 0),
              !.request[p] = 0,
              !.served[p] = outcome[p]]

\* lines 121-139: the session is stored and success answered
AnswerStored(p) ==
    web' = [web EXCEPT
              !.sessions_data =
                  [s \in DOMAIN sessions_data \cup {request[p]} |->
                      IF s = request[p]
                      THEN [modified_cv |-> result[p].modified_cv,
                            match_score |-> result[p].match_score,
                            changes_summary |-> result[p].changes_summary]
                      ELSE sessions_data[s]],
              !.http[p] = Answer(200, TRUE, <<>>, request[p]),
              !.stored = @ \cup {request[p]},
              !.request[p] = 0,
              !.served[p] = outcome[p]]

\* lines 113-143: modify_cv_with_gemini has returned or raised; the document
\* is written, the session stored and the answer sent
ProcessAnswer(p) ==
    /\ request[p] # 0
    /\ pc[p] = "done"
    /\ IF outcome[p] # "ok"
       THEN web' = [web EXCEPT
                      !.http[p] = Answer(500, FALSE,
                                         <<"Processing error: ", outcome[p]>>, 0),
                      !.request[p] = 0,
                      !.served[p] = outcome[p]]
       ELSE \E written \in BOOLEAN :
               IF ~written THEN AnswerNotWritten(p)
               ELSE IF MissingKey(result[p], KeysRead) # "" THEN AnswerKeyError(p)
               ELSE AnswerStored(p)
    /\ UNCHANGED <<quota_exceeded_models, clock, started, pc, ima, fi,
                   model_names_to_try, disc, di, available, models_tried, last_error,
                   outcome, result, history>>

\* lines 145-328: download(session_id).  An id without an entry is answered
\* 404 (line 150); with an entry, the file is missing (line 157), or
\* something raises (line 328), or the file is sent and the entry deleted
\* (lines 256-281, 299-326)
Download(p, maxDownloads) ==
    /\ pc[p] = "idle"
    /\ request[p] = 0
    /\ downloads < maxDownloads
    /\ \E session_id \in 1..(WebRequests + 1) :
          IF session_id \notin DOMAIN sessions_data
          THEN web' = [web EXCEPT
                         !.downloads = @ + 1,
                         !.download = DownloadAnswer(session_id, 404,
                                          <<"Session not found or expired">>)]
          ELSE \E sent \in {"missing", "raised", "sent"} :
                  web' = [web EXCEPT
                            !.downloads = @ + 1,
                            !.downloaded = @ \cup {session_id},
                            !.sessions_data =
                                IF sent = "sent"
                                THEN [s \in DOMAIN sessions_data \ {session_id} |->
                                         sessions_data[s]]
                                ELSE @,
                            !.download =
                                IF sent = "missing"
                                THEN DownloadAnswer(session_id, 404, <<"File not found">>)
                                ELSE IF sent = "raised"
                                THEN DownloadAnswer(session_id, 500, <<"Download error: ">>)
                                ELSE DownloadAnswer(session_id, 200, <<>>)]
    /\ UNCHANGED <<quota_exceeded_models, clock, started, pc, ima, fi,
                   model_names_to_try, disc, di, available, models_tried, last_error,
                   outcome, result, history>>

\* the web server, one request at a time
NextWeb ==
    \/ ProcessRequest(1, WebRequestInputs)
    \/ request[1] # 0 /\ Start(1, WebRequests)
    \/ ImaTest(1)
    \/ ImaRead(1)
    \/ FilterDone(1)
    \/ ListModels(1, ConcDiscoveries)
    \/ ListModelsFails(1)
    \/ ScanSkip(1)
    \/ ScanDone(1)
    \/ Merge(1)
    \/ Issue(1)
    \/ Succeed(1, ConcResponses)
    \/ Fail(1, ConcErrors)
    \/ Exhausted(1)
    \/ ProcessAnswer(1)
    \/ request[1] = 0 /\ Return(1)
    \/ Download(1, MaxDownloads)

SpecWeb == Init /\ [][NextWeb]_vars

TypeOK ==
    /\ DOMAIN quota_exceeded_models \subseteq
          {FixedList[i] : i \in 1..Len(FixedList)}
             \cup {StripModelsPrefix(e.name) : e \in DiscEntries}
             \cup {e.name : e \in DiscEntries}
    /\ \A p \in Procs : pc[p] \in {"idle", "filter", "list", "scan", "merge",
                                   "attempt", "wait", "done",
                                   "t_list", "t_call", "t_wait"}

----------------------------------------------------------------------------
(* Properties *)

\* the candidate list of invocation p is complete (line 110 is behind it)
Built(p) ==
    \/ pc[p] \in {"attempt", "wait"}
    \/ pc[p] = "done" /\ outcome[p] \in {"ok", "AllBackendsFailed", "NoBackendsAvailable"}

\* a quota failure of `name` was recorded less than 300 seconds ago
RecentQuotaFailure(name) ==
    name \in DOMAIN lastFail /\ now - lastFail[name] < Cooldown

\* a quota failure of `name` was recorded at most 300 seconds ago
InCooldown(name) ==
    name \in DOMAIN lastFail /\ now - lastFail[name] <= Cooldown

NoDuplicates(list) ==
    \A i, j \in 1..Len(list) : list[i] = list[j] => i = j

\* the first k attempts of the log all failed with a quota message
QuotaFailures(log, k) ==
    \A i \in 1..k : log[i].status = "error" /\ is_quota_error(log[i].text)

\* C1: when an invocation has built its candidate list and made no attempt
\* yet, the list holds no backend whose quota failure an earlier invocation
\* recorded less than 300 seconds ago
C1_RecentFailureNotCandidate ==
    \A p \in Procs :
        (pc[p] = "attempt" /\ models_tried[p] = 0) =>
            \A i \in 1..Len(model_names_to_try[p]) :
                ~RecentQuotaFailure(model_names_to_try[p][i])

\* is_model_available returns to its caller in this step
ImaReturns(p) ==
    /\ InCall(p)
    /\ \/ pc[p] = "filter" /\ fi'[p] = fi[p] + 1
       \/ pc[p] = "scan" /\ di'[p] = di[p] + 1

\* the value it returns: whether the caller kept the name
ImaValue(p) ==
    IF pc[p] = "filter"
    THEN Len(model_names_to_try'[p]) = Len(model_names_to_try[p]) + 1
    ELSE Len(available'[p]) = Len(available[p]) + 1

\* C2: every call of is_model_available(b) returns False when a quota
\* failure of b was recorded at most 300 seconds before, and True when it
\* was recorded longer ago or never
C2_AvailableIffCooldownOver ==
    [][\A p \in Procs :
          ImaReturns(p) => (ImaValue(p) <=> ~InCooldown(CurName(p)))]_vars

\* the first fixed model has just been refused, exactly 300 seconds after its
\* quota failure was recorded
C2_Witness ==
    /\ pc[1] = "filter" /\ fi[1] = 2 /\ ima[1] = "test"
    /\ model_names_to_try[1] = <<>>
    /\ FixedList[1] \in DOMAIN lastFail
    /\ now - lastFail[FixedList[1]] = Cooldown

C4_AllFailedCarriesLastError ==
    \A p \in Procs :
        LET log == attempts[p]
        IN  /\ (/\ pc[p] = "done"
                /\ log # <<>>
                /\ \A i \in 1..Len(log) : log[i].status = "error") =>
                   /\ outcome[p] = "AllBackendsFailed"
                   /\ result[p].kind = "AllBackendsFailed"
                   /\ result[p].last = log[Len(log)].text
                   /\ Len(log) = Len(model_names_to_try[p])
                   /\ \A i \in 1..Len(log) : log[i].name = model_names_to_try[p][i]
            /\ (pc[p] \in {"attempt", "wait"}
                   /\ \E i \in 1..Len(log) : log[i].status = "error") =>
                   outcome[p] = "none"

\* three candidates failed: with a quota error, with an error that is no quota
\* error, and last with a quota error again
C4_Witness ==
    /\ pc[1] = "done" /\ outcome[1] = "AllBackendsFailed"
    /\ Len(attempts[1]) = 3
    /\ is_quota_error(attempts[1][1].text)
    /\ ~is_quota_error(attempts[1][2].text)
    /\ is_quota_error(attempts[1][3].text)

\* C5: an invocation whose candidate list is empty ends with
\* NoBackendsAvailable, which is not AllBackendsFailed, without having issued a
\* generation call; the attempt loop is entered with a non-empty list only
C5_EmptyListNoCall ==
    \A p \in Procs :
        /\ pc[p] \in {"attempt", "wait"} => model_names_to_try[p] # <<>>
        /\ (pc[p] = "done" /\ outcome[p] # "KeyError" /\ model_names_to_try[p] = <<>>) =>
               /\ outcome[p] = "NoBackendsAvailable"
               /\ result[p] = NoModelsError
               /\ result[p].kind # "AllBackendsFailed"
               /\ attempts[p] = <<>>
               /\ models_tried[p] = 0
        /\ outcome[p] = "NoBackendsAvailable" => model_names_to_try[p] = <<>>

\* every fixed model is in its cooldown, discovery was asked and added
\* nothing, and the invocation ended without a call
C5_Witness ==
    /\ pc[1] = "done" /\ outcome[1] = "NoBackendsAvailable"
    /\ \A i \in 1..Len(FixedList) : InCooldown(FixedList[i])
    /\ ~listFailed[1]
    /\ attempts[1] = <<>>

\* C6: no candidate list holds a name twice, at any point of its construction
\* and after
C6_CandidatesDistinct ==
    \A p \in Procs : NoDuplicates(model_names_to_try[p])

\* the list is built from the whole fixed list, a model only discovery knows
\* and an API model that line 107 found in the list already
C6_Witness ==
    /\ pc[1] = "attempt"
    /\ skipped[1]
    /\ Len(model_names_to_try[1]) = Len(FixedList) + 1
    /\ SubSeq(model_names_to_try[1], 2, Len(FixedList) + 1) = FixedList

\* C7: the generation calls of an invocation go to the candidates in list
\* order, one at a time; a call is made only when every earlier one has
\* failed, and a call that succeeded is the last one
C7_SequentialInOrder ==
    \A p \in Procs :
        LET log == attempts[p]
        IN  /\ Len(log) = models_tried[p]
            /\ Len(log) <= Len(model_names_to_try[p])
            /\ \A i \in 1..Len(log) :
                  /\ log[i].name = model_names_to_try[p][i]
                  /\ i < Len(log) => log[i].status = "error"
            /\ pc[p] = "wait" <=> (log # <<>> /\ log[Len(log)].status = "pending")
            /\ (log # <<>> /\ log[Len(log)].status = "ok") =>
                  (pc[p] = "done" /\ outcome[p] = "ok")

\* the third and last candidate's call is out, after the calls to the first
\* and the second failed
C7_Witness ==
    /\ pc[1] = "wait"
    /\ Len(attempts[1]) = 3
    /\ Len(model_names_to_try[1]) = 3

\* C8: a failure whose message has no quota keyword leaves the quota map as it
\* was and the loop goes on; a failure that has one changes the map at the
\* failed candidate's name only; no other step of the attempt loop writes it
C8_QuotaMapWrittenOnQuotaFailureOnly ==
    [][\A p \in Procs :
          pc[p] \in {"attempt", "wait"} =>
             IF pc[p] = "wait" /\ pc'[p] = "attempt"
             THEN LET name == attempts[p][Len(attempts[p])].name
                  IN  IF is_quota_error(attempts'[p][Len(attempts[p])].text)
                      THEN /\ name \in DOMAIN quota_exceeded_models'
                           /\ quota_exceeded_models'[name] = now
                           /\ \A n \in (DOMAIN quota_exceeded_models
                                          \cup DOMAIN quota_exceeded_models') \ {name} :
                                 /\ n \in DOMAIN quota_exceeded_models
                                 /\ n \in DOMAIN quota_exceeded_models'
                                 /\ quota_exceeded_models'[n] = quota_exceeded_models[n]
                      ELSE /\ quota_exceeded_models' = quota_exceeded_models
                           /\ outcome'[p] = "none"
                           /\ models_tried'[p] = models_tried[p]
             ELSE quota_exceeded_models' = quota_exceeded_models]_vars

\* a candidate has failed without a quota keyword, the map is empty and the
\* next candidate is up
C8_Witness ==
    /\ pc[1] = "attempt"
    /\ models_tried[1] = 1
    /\ Len(model_names_to_try[1]) > 1
    /\ attempts[1][1].status = "error"
    /\ ~is_quota_error(attempts[1][1].text)
    /\ quota_exceeded_models = <<>>

\* C9: every invocation that has ended, ended with a result, with
\* NoBackendsAvailable or with AllBackendsFailed
C9_EndsInOneOfThree ==
    \A p \in Procs :
        pc[p] = "done" =>
            outcome[p] \in {"ok", "NoBackendsAvailable", "AllBackendsFailed"}

\* C10: when the discovery query fails, get_available_models returns [], the
\* candidate list is the fixed list as line 96 filtered it, and the invocation
\* ends with a result, or with NoBackendsAvailable exactly when that list is
\* empty, or with AllBackendsFailed after a failed call to each of its names
C10_DiscoveryFailureAbsorbed ==
    \A p \in Procs :
        listFailed[p] =>
            /\ pc[p] = "merge" => available[p] = <<>>
            /\ pc[p] \in {"merge", "attempt", "wait", "done"} =>
                  model_names_to_try[p] = filtered[p]
            /\ pc[p] = "done" =>
                  /\ outcome[p] \in {"ok", "NoBackendsAvailable", "AllBackendsFailed"}
                  /\ outcome[p] = "NoBackendsAvailable" <=> filtered[p] = <<>>
                  /\ outcome[p] = "AllBackendsFailed" =>
                        /\ Len(attempts[p]) = Len(filtered[p])
                        /\ \A i \in 1..Len(attempts[p]) :
                              /\ attempts[p][i].status = "error"
                              /\ attempts[p][i].name = filtered[p][i]

\* listing failed while the first fixed model was in its cooldown, and the
\* invocation went on to a result from the second
C10_Witness ==
    /\ listFailed[1]
    /\ pc[1] = "done" /\ outcome[1] = "ok"
    /\ InCooldown(FixedList[1])
    /\ filtered[1] = Tail(FixedList)
    /\ Len(attempts[1]) = 1

----------------------------------------------------------------------------
(* Properties of the response parser.  They speak of a response text through  *)
(* the positions of its markers, not through the chain of splits the parser   *)
(* makes.                                                                     *)

\* invocation p returned a parsed result
Parsed(p) == pc[p] = "done" /\ outcome[p] = "ok"

\* the response text that result was parsed from
ResponseText(p) == attempts[p][Len(attempts[p])].text

\* the places where needle occurs in text
Occurrences(text, needle) ==
    { i \in 1..(Len(text) - Len(needle) + 1) :
        SubSeq(text, i, i + Len(needle) - 1) = needle }

Occurs(text, needle) == Occurrences(text, needle) # {}

\* the place of a marker that occurs exactly once
Place(text, needle) == CHOOSE i \in Occurrences(text, needle) : TRUE

\* the text from the end of marker m1 to the start of marker m2
Between(text, m1, m2) ==
    SubSeq(text, Place(text, m1) + Len(m1), Place(text, m2) - 1)

\* the text from the end of marker m to the end
AfterMarker(text, m) == SubSeq(text, Place(text, m) + Len(m), Len(text))

SetMin(S) == CHOOSE x \in S : \A y \in S : x <= y
SetMax(S) == CHOOSE x \in S : \A y \in S : x >= y

\* text without its leading and trailing whitespace
Trimmed(text) ==
    LET solid == { i \in 1..Len(text) : text[i] \notin {" ", "\n"} }
    IN  IF solid = {} THEN <<>> ELSE SubSeq(text, SetMin(solid), SetMax(solid))

Digits == {"0", "1", "2", "3", "4", "5", "6", "7", "8", "9"}

HasDigit(text) == \E i \in 1..Len(text) : text[i] \in Digits

\* the first contiguous run of decimal digits of a text that has a digit
FirstDigits(text) ==
    LET first == SetMin({ i \in 1..Len(text) : text[i] \in Digits })
        last  == SetMax({ j \in first..Len(text) :
                            \A k \in first..j : text[k] \in Digits })
    IN  SubSeq(text, first, last)

\* ORIGINAL_MATCH_SCORE: s1 MODIFIED_CV: d MODIFIED_MATCH_SCORE: s2
\* CHANGES_SUMMARY: c, each marker once and in that order
FullFormat(text) ==
    /\ \A m \in { M_ORIGINAL_MATCH_SCORE, M_MODIFIED_CV, M_MODIFIED_MATCH_SCORE,
                  M_CHANGES_SUMMARY } : Cardinality(Occurrences(text, m)) = 1
    /\ Place(text, M_ORIGINAL_MATCH_SCORE) < Place(text, M_MODIFIED_CV)
    /\ Place(text, M_MODIFIED_CV) < Place(text, M_MODIFIED_MATCH_SCORE)
    /\ Place(text, M_MODIFIED_MATCH_SCORE) < Place(text, M_CHANGES_SUMMARY)

\* C11: a response in the full format, each marker once and in order, parses
\* to document = d stripped, summary = c stripped when that is not empty, and
\* each score = the first run of digits of its section s1, s2
C11_FullFormatParsed ==
    \A p \in Procs :
        (Parsed(p) /\ FullFormat(ResponseText(p))) =>
            LET text == ResponseText(p)
                s1 == Between(text, M_ORIGINAL_MATCH_SCORE, M_MODIFIED_CV)
                d  == Between(text, M_MODIFIED_CV, M_MODIFIED_MATCH_SCORE)
                s2 == Between(text, M_MODIFIED_MATCH_SCORE, M_CHANGES_SUMMARY)
                c  == AfterMarker(text, M_CHANGES_SUMMARY)
            IN  /\ result[p].modified_cv = Trimmed(d)
                /\ Trimmed(c) # <<>> => result[p].changes_summary = Trimmed(c)
                /\ HasDigit(s1) => result[p].original_match_score = FirstDigits(s1)
                /\ HasDigit(s2) => result[p].modified_match_score = FirstDigits(s2)

\* a full-format response is parsed: scores 85 (of 'around 85% 9') and 150, a
\* two-word document, a summary
C11_Witness ==
    /\ Parsed(1)
    /\ FullFormat(ResponseText(1))
    /\ result[1].original_match_score = <<"8", "5">>
    /\ result[1].modified_match_score = <<"1", "5", "0">>
    /\ result[1].modified_cv = <<"Hello", " ", "World">>
    /\ result[1].changes_summary = <<"0">>

\* MODIFIED_CV: d MATCH_SCORE: s, optionally CHANGES_SUMMARY: c, without
\* ORIGINAL_MATCH_SCORE:, each marker once and in that order
LegacyFormat(text) ==
    /\ ~Occurs(text, M_ORIGINAL_MATCH_SCORE)
    /\ Cardinality(Occurrences(text, M_MODIFIED_CV)) = 1
    /\ Cardinality(Occurrences(text, M_MATCH_SCORE)) = 1
    /\ Place(text, M_MODIFIED_CV) < Place(text, M_MATCH_SCORE)
    /\ Cardinality(Occurrences(text, M_CHANGES_SUMMARY)) <= 1
    /\ Occurs(text, M_CHANGES_SUMMARY) =>
          Place(text, M_MATCH_SCORE) < Place(text, M_CHANGES_SUMMARY)

\* C12: a response in the legacy format parses to document = d stripped,
\* original score 'N/A', modified score = the first run of digits of s, and
\* summary = c stripped, or the default sentence when there is no c
C12_LegacyFormatParsed ==
    \A p \in Procs :
        (Parsed(p) /\ LegacyFormat(ResponseText(p))) =>
            LET text == ResponseText(p)
                with_c == Occurs(text, M_CHANGES_SUMMARY)
                d == Between(text, M_MODIFIED_CV, M_MATCH_SCORE)
                s == IF with_c THEN Between(text, M_MATCH_SCORE, M_CHANGES_SUMMARY)
                     ELSE AfterMarker(text, M_MATCH_SCORE)
                c == IF with_c THEN Trimmed(AfterMarker(text, M_CHANGES_SUMMARY))
                     ELSE <<>>
            IN  /\ result[p].modified_cv = Trimmed(d)
                /\ result[p].original_match_score = <<"N/A">>
                /\ HasDigit(s) => result[p].modified_match_score = FirstDigits(s)
                /\ result[p].changes_summary = IF c # <<>> THEN c ELSE DefaultSummary

\* MODIFIED_CV: Hello World MATCH_SCORE: around 85% 9 is parsed
C12_Witness ==
    /\ Parsed(1)
    /\ LegacyFormat(ResponseText(1))
    /\ ~Occurs(ResponseText(1), M_CHANGES_SUMMARY)
    /\ result[1].modified_cv = <<"Hello", " ", "World">>
    /\ result[1].modified_match_score = <<"8", "5">>
    /\ result[1].original_match_score = <<"N/A">>
    /\ result[1].changes_summary = DefaultSummary

\* the text holds none of the marker literals
NoMarkers(text) ==
    \A i \in 1..Len(Markers) : ~Occurs(text, Markers[i])

\* C13: a response without any marker parses to document = the raw text
\* unchanged, both scores 'N/A' and the default summary
C13_NoMarkersWholeText ==
    \A p \in Procs :
        (Parsed(p) /\ NoMarkers(ResponseText(p))) =>
            result[p] = [modified_cv |-> ResponseText(p),
                         original_match_score |-> <<"N/A">>,
                         modified_match_score |-> <<"N/A">>,
                         changes_summary |-> DefaultSummary]

\* a text without markers that starts with a blank and holds digits is parsed
C13_Witness ==
    /\ Parsed(1)
    /\ ResponseText(1) = <<" ", "around", " ", "8", "5", "%", " ", "9">>
    /\ result[1].modified_cv = ResponseText(1)
    /\ result[1].modified_match_score = <<"N/A">>

\* C14: a captured score section without a decimal digit ('high', or nothing
\* between two adjacent markers) gives the score 'N/A', never the section
\* text, the empty string or zero
C14_NoDigitGivesSentinel ==
    \A p \in Procs :
        Parsed(p) =>
            LET s == Sections(ResponseText(p))
            IN  /\ ~HasDigit(s.orig) => result[p].original_match_score = <<"N/A">>
                /\ ~HasDigit(s.mod) => result[p].modified_match_score = <<"N/A">>

\* C15: a captured score section with a decimal digit gives exactly its first
\* contiguous run of digits: '0' gives 0, a value above 100 is not clamped
C15_FirstDigitRun ==
    \A p \in Procs :
        Parsed(p) =>
            LET s == Sections(ResponseText(p))
            IN  /\ HasDigit(s.orig) => result[p].original_match_score = FirstDigits(s.orig)
                /\ HasDigit(s.mod) => result[p].modified_match_score = FirstDigits(s.mod)

\* the sections '0' and ' around 85% 9' were captured and cleaned
C15_Witness ==
    /\ Parsed(1)
    /\ Sections(ResponseText(1)).orig = <<"0">>
    /\ Sections(ResponseText(1)).mod = <<"around", " ", "8", "5", "%", " ", "9">>
    /\ result[1].original_match_score = <<"0">>
    /\ result[1].modified_match_score = <<"8", "5">>

\* a non-empty string of decimal digits, what int() accepts
AllDigits(text) == text # <<>> /\ \A i \in 1..Len(text) : text[i] \in Digits

\* C17: in every successful result both scores are non-empty strings of
\* decimal digits
C17_ScoresAreNumbers ==
    \A p \in Procs :
        Parsed(p) =>
            /\ AllDigits(result[p].original_match_score)
            /\ AllDigits(result[p].modified_match_score)

----------------------------------------------------------------------------
(* Properties of concurrent invocations *)

\* the quota map holds a record of `name` that has not expired
UnexpiredRecord(name) ==
    /\ name \in DOMAIN quota_exceeded_models
    /\ now - quota_exceeded_models[name] <= Cooldown

\* C18: no generation call goes out to a backend that has an unexpired quota
\* record at the moment of the call, whoever wrote the record and whenever
C18_NoCallDuringCooldown ==
    [][ \A p \in Procs :
          (pc[p] = "attempt" /\ pc'[p] = "wait") =>
              ~UnexpiredRecord(attempts'[p][Len(attempts'[p])].name) ]_vars

\* C19: while less than 300 seconds have passed since a quota failure of a
\* backend was recorded, the record is in the quota map, so that a call of
\* is_model_available starting now answers False
C19_RecordNotLost ==
    \A name \in DOMAIN lastFail :
        RecentQuotaFailure(name) =>
            ~is_model_available(quota_exceeded_models, name, now)

----------------------------------------------------------------------------
(* Properties of the merge *)

\* the identifiers get_available_models returned that the fixed list does not
\* name, in the order of discovery
DiscoveredOnly(p) ==
    SelectSeq([i \in 1..Len(available[p]) |-> StripModelsPrefix(available[p][i])],
              LAMBDA n : ~InList(n, FixedList))

\* C20: the candidate list starts with the discovered identifiers that the
\* fixed list does not name, in the order of discovery, and goes on with the
\* filtered fixed list
C20_DiscoveryOrderKept ==
    [][ \A p \in Procs :
          (pc[p] = "merge" /\ pc'[p] # "merge" /\ NoDuplicates(DiscoveredOnly(p))) =>
              model_names_to_try'[p] = DiscoveredOnly(p) \o filtered[p] ]_vars

----------------------------------------------------------------------------
(* Properties of the web layer *)

\* C16: when modify_cv_with_gemini returned a result (and the document could
\* be written), process() answers success = True and has stored a session
\* entry under the new session id; it does not answer 'Processing error'
C16_ResultGivesSuccess ==
    \A p \in Procs :
        (/\ served[p] = "ok"
         /\ http[p] # NoAnswer
         /\ http[p].error # <<"Processing error: ", "Error writing DOCX file">>) =>
            /\ http[p].success
            /\ http[p].session_id \in DOMAIN sessions_data

----------------------------------------------------------------------------
(* Properties of the candidate order *)

\* the place of a fixed-list identifier in the static preference order
Preference(name) == CHOOSE i \in 1..Len(FixedList) : FixedList[i] = name

\* C21: in every candidate list the identifiers of the fixed list keep their
\* static preference order among themselves, and every identifier that comes
\* only from discovery stands before every identifier of the fixed list
C21_PreferenceOrderKept ==
    \A p \in Procs :
        Built(p) =>
            LET list == model_names_to_try[p]
            IN  \A i, j \in 1..Len(list) :
                    /\ (i < j /\ InList(list[i], FixedList) /\ InList(list[j], FixedList))
                          => Preference(list[i]) < Preference(list[j])
                    /\ (~InList(list[i], FixedList) /\ InList(list[j], FixedList))
                          => i < j

----------------------------------------------------------------------------
(* Properties of the rotation loop *)

\* C22: within one invocation no identifier is called twice and there are at
\* most as many calls as the candidate list has entries; when every call
\* returns, the loop ends with a result or a terminal failure
C22_OneCallEachThenDone ==
    /\ [](\A p \in Procs :
            /\ Len(attempts[p]) <= Len(model_names_to_try[p])
            /\ \A i, j \in 1..Len(attempts[p]) :
                  i # j => attempts[p][i].name # attempts[p][j].name)
    /\ \A p \in Procs : (pc[p] = "attempt") ~> (pc[p] = "done")

\* both candidates were called, each once, and the invocation has ended
C22_Witness ==
    /\ pc[1] = "done"
    /\ outcome[1] = "AllBackendsFailed"
    /\ Len(model_names_to_try[1]) = 2
    /\ Len(attempts[1]) = 2

----------------------------------------------------------------------------
(* Properties of the parser on texts with further markers *)

\* the text after the first occurrence of marker m
Rest(text, m) ==
    SubSeq(text, SetMin(Occurrences(text, m)) + Len(m), Len(text))

\* the text up to the first occurrence of marker m, all of it when there is none
UpTo(text, m) ==
    IF Occurs(text, m) THEN SubSeq(text, 1, SetMin(Occurrences(text, m)) - 1)
    ELSE text

\* the four markers are found in order, each in the remainder after the one
\* before
InExpectedOrder(text) ==
    /\ Occurs(text, M_ORIGINAL_MATCH_SCORE)
    /\ Occurs(Rest(text, M_ORIGINAL_MATCH_SCORE), M_MODIFIED_CV)
    /\ Occurs(Rest(Rest(text, M_ORIGINAL_MATCH_SCORE), M_MODIFIED_CV),
              M_MODIFIED_MATCH_SCORE)
    /\ Occurs(Rest(Rest(Rest(text, M_ORIGINAL_MATCH_SCORE), M_MODIFIED_CV),
                   M_MODIFIED_MATCH_SCORE), M_CHANGES_SUMMARY)

\* C23: where the four markers occur in the expected order, each field runs
\* from the first occurrence of its marker in the remainder after the marker
\* before to the first occurrence of the next marker in that remainder, the
\* summary to the end of the text, also when a marker literal is repeated
C23_ScopedSearch ==
    \A p \in Procs :
        (Parsed(p) /\ InExpectedOrder(ResponseText(p))) =>
            LET r1 == Rest(ResponseText(p), M_ORIGINAL_MATCH_SCORE)
                r2 == Rest(r1, M_MODIFIED_CV)
                r3 == Rest(r2, M_MODIFIED_MATCH_SCORE)
                s1 == UpTo(r1, M_MODIFIED_CV)
                d  == UpTo(r2, M_MODIFIED_MATCH_SCORE)
                s2 == UpTo(r3, M_CHANGES_SUMMARY)
                c  == Rest(r3, M_CHANGES_SUMMARY)
            IN  /\ result[p].modified_cv = Trimmed(d)
                /\ result[p].changes_summary =
                      IF Trimmed(c) # <<>> THEN Trimmed(c) ELSE DefaultSummary
                /\ HasDigit(s1) => result[p].original_match_score = FirstDigits(s1)
                /\ HasDigit(s2) => result[p].modified_match_score = FirstDigits(s2)

----------------------------------------------------------------------------
(* Properties of the parser on degraded texts *)

\* C24: a non-empty response text without a rewritten-document section gives
\* the whole raw text as the document, with or without ORIGINAL_MATCH_SCORE:,
\* and a text with ORIGINAL_MATCH_SCORE: but no MODIFIED_CV: after it never
\* gives an empty document
C24_NoDocumentSectionWholeText ==
    \A p \in Procs :
        (Parsed(p) /\ ResponseText(p) # <<>>) =>
            /\ ~Occurs(ResponseText(p), M_MODIFIED_CV)
                  => result[p].modified_cv = ResponseText(p)
            /\ (/\ Occurs(ResponseText(p), M_ORIGINAL_MATCH_SCORE)
                /\ ~Occurs(Rest(ResponseText(p), M_ORIGINAL_MATCH_SCORE), M_MODIFIED_CV))
                  => result[p].modified_cv # <<>>

\* MODIFIED_CV: d MODIFIED_MATCH_SCORE: s, optionally CHANGES_SUMMARY: c,
\* without ORIGINAL_MATCH_SCORE:, each marker once and in that order
ModifiedScoreLayout(text) ==
    /\ ~Occurs(text, M_ORIGINAL_MATCH_SCORE)
    /\ Cardinality(Occurrences(text, M_MODIFIED_CV)) = 1
    /\ Cardinality(Occurrences(text, M_MODIFIED_MATCH_SCORE)) = 1
    /\ Cardinality(Occurrences(text, M_MATCH_SCORE)) = 1
    /\ Place(text, M_MODIFIED_CV) < Place(text, M_MODIFIED_MATCH_SCORE)
    /\ Cardinality(Occurrences(text, M_CHANGES_SUMMARY)) <= 1
    /\ Occurs(text, M_CHANGES_SUMMARY) =>
          Place(text, M_MODIFIED_MATCH_SCORE) < Place(text, M_CHANGES_SUMMARY)

\* the pieces a marker label is made of
LabelPieces ==
    UNION { { m[i] : i \in 1..Len(m) } : m \in { Markers[k] : k \in 1..Len(Markers) } }

\* C25: a response without ORIGINAL_MATCH_SCORE: laid out as MODIFIED_CV: d
\* MODIFIED_MATCH_SCORE: s, optionally CHANGES_SUMMARY: c, parses to document
\* = d stripped, holding no piece of a marker label, and modified score = the
\* first run of digits of s
C25_ModifiedScoreLayoutParsed ==
    \A p \in Procs :
        (Parsed(p) /\ ModifiedScoreLayout(ResponseText(p))) =>
            LET text == ResponseText(p)
                d == Between(text, M_MODIFIED_CV, M_MODIFIED_MATCH_SCORE)
                s == IF Occurs(text, M_CHANGES_SUMMARY)
                     THEN Between(text, M_MODIFIED_MATCH_SCORE, M_CHANGES_SUMMARY)
                     ELSE AfterMarker(text, M_MODIFIED_MATCH_SCORE)
            IN  /\ result[p].modified_cv = Trimmed(d)
                /\ \A i \in 1..Len(result[p].modified_cv) :
                       result[p].modified_cv[i] \notin LabelPieces
                /\ HasDigit(s) => result[p].modified_match_score = FirstDigits(s)

\* C26: the summary of a successful result is never empty: it is the stripped
\* text after CHANGES_SUMMARY: when the text has that section and it is not
\* blank, and the default sentence in every other case
C26_SummaryOrDefault ==
    \A p \in Procs :
        Parsed(p) =>
            LET text == ResponseText(p)
                c == IF Occurs(text, M_CHANGES_SUMMARY)
                     THEN Trimmed(Rest(text, M_CHANGES_SUMMARY))
                     ELSE <<>>
            IN  /\ result[p].changes_summary # <<>>
                /\ result[p].changes_summary = IF c # <<>> THEN c ELSE DefaultSummary

----------------------------------------------------------------------------
(* Properties of the quota classification *)

\* the tokens that differ from their lower-case spelling
UpperCased ==
    { <<"Quota", "quota">>, <<"RATE", "rate">>, <<"LIMIT", "limit">>,
      <<"Exceeded", "exceeded">>, <<"Resource", "resource">>, <<"API", "api">> }

\* token t reads k when case is ignored
ReadsAs(t, k) == t = k \/ <<t, k>> \in UpperCased

\* the six keywords
Keywords ==
    { <<"quota">>, <<"rate", " ", "limit">>, <<"exceeded">>,
      <<"too", " ", "many", " ", "requests">>, <<"429">>,
      <<"resource", " ", "exhausted">> }

\* the message holds one of the keywords, in any casing
MentionsQuota(message) ==
    \E k \in Keywords :
        \E i \in 1..(Len(message) - Len(k) + 1) :
            \A j \in 1..Len(k) : ReadsAs(message[i + j - 1], k[j])

\* C27: is_quota_error(m) is true exactly when the lower-cased m holds one of
\* the six keywords, and a failed call writes the backend's record exactly
\* when is_quota_error holds of its message
C27_RecordedIffQuotaError ==
    [][\A p \in Procs :
          (pc[p] = "wait" /\ pc'[p] = "attempt") =>
              LET name == attempts[p][Len(attempts[p])].name
                  e == attempts'[p][Len(attempts[p])].text
              IN  /\ is_quota_error(e) <=> MentionsQuota(e)
                  /\ MentionsQuota(e) =>
                        /\ name \in DOMAIN quota_exceeded_models'
                        /\ quota_exceeded_models'[name] = now
                        /\ \A n \in DOMAIN quota_exceeded_models' \ {name} :
                              /\ n \in DOMAIN quota_exceeded_models
                              /\ quota_exceeded_models'[n] = quota_exceeded_models[n]
                  /\ ~MentionsQuota(e) =>
                        quota_exceeded_models' = quota_exceeded_models]_vars

\* 'RATE LIMIT' failed the first candidate and left a record, 'ratelimit'
\* failed the second and left none
C27_Witness ==
    /\ pc[1] = "done"
    /\ Len(attempts[1]) = 2
    /\ attempts[1][1].text = <<"RATE", " ", "LIMIT">>
    /\ attempts[1][1].name \in DOMAIN quota_exceeded_models
    /\ attempts[1][2].text = <<"API", "rate", "limit", "API">>
    /\ attempts[1][2].name \notin DOMAIN quota_exceeded_models

----------------------------------------------------------------------------
(* Properties of the connection test *)

\* C29: while less than 300 seconds have passed since test_gemini_connection
\* recorded a quota failure of a model, no invocation of modify_cv_with_gemini
\* has that model in the candidate list it built
C29_TestFailureExcludes ==
    \A p \in Procs :
        (pc[p] = "attempt" /\ models_tried[p] = 0) =>
            \A name \in DOMAIN lastFail :
                RecentQuotaFailure(name) =>
                    ~InList(StripModelsPrefix(name), model_names_to_try[p])

----------------------------------------------------------------------------
(* Properties of the sessions *)

====
